---------------------------- MODULE Spec2Model ----------------------------
(***************************************************************************)
(* Model of sk_model/plot_singlediode.py (PVPerfTest) run by the harness   *)
(* of sk_model/pv_base.py (PVBase.main).                                   *)
(*                                                                         *)
(* One process, no concurrency: the variable pc is the position of that    *)
(* process in the code.  An exception that nobody has caught yet is held   *)
(* in exc while pc = "propagate".                                          *)
(*                                                                         *)
(* pvlib, pandas and urllib are external libraries.  Their calls are kept  *)
(* as steps of their own; what they compute is represented by              *)
(* deterministic element-wise integer functions (floating point is not     *)
(* modelled, percentages are exact rationals), and whether they raise is   *)
(* either decided by their arguments (a non-numeric operand) or an outcome *)
(* chosen by the environment.                                              *)
(***************************************************************************)
EXTENDS Integers, Sequences, FiniteSets, TLC

(***************************************************************************)
(* Bounds of the model.                                                    *)
(***************************************************************************)
\* largest number of records in the objects array of a catalog response
MaxModules == 3
\* longest list of operating conditions handed to a direct call
MaxConds == 3

(***************************************************************************)
(* JSON values.  A value carries its kind, so that a number and a string   *)
(* can sit in the same record.                                             *)
(***************************************************************************)
NumV(n) == [t |-> "num", n |-> n, s |-> ""]
StrV(s) == [t |-> "str", n |-> 0, s |-> s]
IsNum(v) == v.t = "num"
IsStr(v) == v.t = "str"

(***************************************************************************)
(* The exception in flight.                                                *)
(***************************************************************************)
NoExc == [type |-> "none", arg |-> ""]
Exc(type, arg) == [type |-> type, arg |-> arg]

(***************************************************************************)
(* The keys read by extract_module_params, in the order the dict literal   *)
(* evaluates them.                                                         *)
(***************************************************************************)
FieldOrder ==
    << "Name", "BIPV", "Date", "T_NOCT", "A_c", "N_s", "I_sc_ref",
       "V_oc_ref", "I_mp_ref", "V_mp_ref", "beta_oc", "alpha_sc", "a_ref",
       "I_L_ref", "I_o_ref", "R_s", "R_sh_ref", "Adjust", "gamma_r",
       "Version", "PTC", "Technology" >>

Fields == { FieldOrder[i] : i \in DOMAIN FieldOrder }

\* the fields the catalog delivers as text; every other field is a number
TextFields == { "Name", "BIPV", "Date", "Version", "Technology" }
NumericFields == Fields \ TextFields

\* the reference parameters calculate_result hands to calcparams_desoto
DesotoFields == { "alpha_sc", "a_ref", "I_L_ref", "I_o_ref", "R_sh_ref", "R_s" }

(***************************************************************************)
(* Exact rationals [n, d] with d > 0 and gcd(n, d) = 1, for the float      *)
(* arithmetic of run_test and calcuate_errors.                             *)
(***************************************************************************)
Abs(x) == IF x < 0 THEN -x ELSE x

RECURSIVE Gcd(_, _)
Gcd(a, b) == IF b = 0 THEN a ELSE Gcd(b, a % b)

Rat(n, d) ==
    LET s == IF d < 0 THEN -1 ELSE 1
        g == Gcd(Abs(n), Abs(d))
    IN  [n |-> (s * n) \div g, d |-> (s * d) \div g]

RatInt(k) == [n |-> k, d |-> 1]
RatSub(a, b) == Rat(a.n * b.d - b.n * a.d, a.d * b.d)
RatMul(a, b) == Rat(a.n * b.n, a.d * b.d)
RatDiv(a, b) == Rat(a.n * b.d, a.d * b.n)

(***************************************************************************)
(* "{:.kf}".format(x): x rounded to k decimals, ties to even, given as the *)
(* integer number of 10^-k units.  FormatF(x, 10) is "{:.1f}" and          *)
(* FormatF(x, 1) is "{:.0f}".                                              *)
(***************************************************************************)
FormatF(x, scale) ==
    LET num  == x.n * scale
        q    == num \div x.d
        twoR == 2 * (num % x.d)
    IN  IF twoR < x.d THEN q
        ELSE IF twoR > x.d THEN q + 1
        ELSE IF q % 2 = 0 THEN q ELSE q + 1

(***************************************************************************)
(* Raw module records, as the catalog delivers them: a function from the   *)
(* keys that are present to their values.                                  *)
(***************************************************************************)
GoodA ==
    [f \in Fields |->
        CASE f = "Name"       -> StrV("A")
          [] f = "BIPV"       -> StrV("N")
          [] f = "Date"       -> StrV("2019")
          [] f = "Version"    -> StrV("SAM")
          [] f = "Technology" -> StrV("Mono-c-Si")
          [] f = "alpha_sc"   -> NumV(0)
          [] f = "a_ref"      -> NumV(37)
          [] f = "I_L_ref"    -> NumV(6)
          [] f = "I_o_ref"    -> NumV(0)
          [] f = "R_s"        -> NumV(0)
          [] f = "R_sh_ref"   -> NumV(300)
          [] OTHER            -> NumV(1)]

GoodB ==
    [GoodA EXCEPT !["Name"] = StrV("B"),
                  !["Technology"] = StrV("Multi-c-Si"),
                  !["I_L_ref"] = NumV(5)]

\* the record m with key f absent
Without(m, f) == [g \in (DOMAIN m) \ {f} |-> m[g]]

\* a value of the kind key f is not meant to hold
WrongKind(f) == IF f \in TextFields THEN NumV(7) ELSE StrV("abc")

\* records handed to a direct call of calculate_result: every single
\* defect of GoodA, and one record with two keys absent
RawRecords ==
    {GoodA, GoodB, Without(Without(GoodB, "a_ref"), "BIPV")}
        \cup { Without(GoodA, f) : f \in Fields }
        \cup { [GoodA EXCEPT ![f] = WrongKind(f)] : f \in Fields }

\* records a catalog response is made of
CatalogRecords ==
    { GoodA, GoodB,
      Without(GoodA, "a_ref"),
      [GoodB EXCEPT !["a_ref"] = StrV("abc")],
      [GoodA EXCEPT !["T_NOCT"] = StrV("abc")],
      [GoodB EXCEPT !["Technology"] = NumV(7)],
      Without(GoodB, "Name"),
      [GoodA EXCEPT !["Name"] = NumV(7)] }

\* all sequences over S of length at most n
SeqsUpTo(S, n) == UNION { [1..k -> S] : k \in 0..n }

\* catalog responses: meta.total_count and the objects array.  total_count
\* counts the matching modules; the server caps the array at the requested
\* limit, so total_count may exceed the length of the array.
CatalogResponses ==
    { r \in [total_count : 0..(MaxModules + 1),
             objects : SeqsUpTo(CatalogRecords, MaxModules)] :
        /\ r.total_count >= Len(r.objects)
        /\ r.total_count <= Len(r.objects) + 1 }

\* the operating conditions of run_test
cases ==
    << <<1000, 55>>, <<800, 55>>, <<600, 55>>,
       <<400, 25>>, <<400, 40>>, <<400, 55>> >>

\* operating conditions handed to a direct call
Conditions == { <<1000, 55>>, <<800, 55>>, <<400, 25>> }

\* maximum-power columns and reference wattages handed to a direct call of
\* calcuate_errors
PmpValues == { 0, 110, 220, 231 }
WattValues == { RatInt(220), RatInt(-5), Rat(1, 2), Rat(441, 2) }

\* what an external call may raise when it fails
ExternalErrors == { "AssertionError", "RuntimeError" }

(***************************************************************************)
(* External numeric library, element by element.  calcparams_desoto_at     *)
(* follows the De Soto translation in whole numbers (Tref = 25 C,          *)
(* reference irradiance 1000 W/m^2); singlediode_at stands for the solver: *)
(* a fixed function of the five translated parameters.                     *)
(***************************************************************************)
calcparams_desoto_at(Geff, Tcell, alpha_sc, a_ref, I_L_ref, I_o_ref, R_sh_ref, R_s) ==
    [IL     |-> (Geff * (I_L_ref + alpha_sc * (Tcell - 25))) \div 1000,
     I0     |-> I_o_ref * ((Tcell + 273) \div 298),
     Rs     |-> R_s,
     Rsh    |-> (R_sh_ref * 1000) \div Geff,
     nNsVth |-> (a_ref * (Tcell + 273)) \div 298]

singlediode_at(photocurrent, saturation_current, resistance_series, resistance_shunt, nNsVth) ==
    LET v_mp == nNsVth - resistance_series
        i_mp == photocurrent - saturation_current - (v_mp \div resistance_shunt)
    IN  [i_sc |-> photocurrent, v_oc |-> nNsVth,
         i_mp |-> i_mp, v_mp |-> v_mp, p_mp |-> i_mp * v_mp]

\* a column of a table of rows
Column(rows, key) == [i \in DOMAIN rows |-> rows[i][key]]

NoRecord == [none |-> NumV(0)]
NoCurve == [i_sc |-> <<>>, v_oc |-> <<>>, i_mp |-> <<>>, v_mp |-> <<>>, p_mp |-> <<>>]
NoResponse == [total_count |-> 0, objects |-> <<>>]

\* a line printed on the console
Line(tag, name, val) == [tag |-> tag, name |-> name, val |-> val]

(***************************************************************************)
(* The values of pv_modeling.  A Technology is text, kept as its sequence  *)
(* of characters so that the test "Mono" in Technology is a search.  A     *)
(* result slot holds '' or the DataFrame that get_mpp returned; an         *)
(* attribute that no assignment has made yet is absent.                    *)
(***************************************************************************)
MonoCSi == << "M", "o", "n", "o", "-", "c", "-", "S", "i" >>
MultiCSi == << "M", "u", "l", "t", "i", "-", "c", "-", "S", "i" >>
ThinFilm == << "T", "h", "i", "n", " ", "F", "i", "l", "m" >>
Technologies == { MonoCSi, MultiCSi, ThinFilm }

\* sub in s, on text
Contains(sub, s) ==
    \E i \in 1..(Len(s) - Len(sub) + 1) : SubSeq(s, i, i + Len(sub) - 1) = sub

AbsentV == [t |-> "absent", n |-> 0, s |-> << >>]
TextV(s) == [t |-> "str", n |-> 0, s |-> s]
FrameV(n) == [t |-> "frame", n |-> n, s |-> << >>]
IsFrame(v) == v.t = "frame"

\* a module of the CEC table, as far as the script reads it
Module(technology) == [Technology |-> technology]
NoModule == Module(<< >>)

(***************************************************************************)
(* State.                                                                  *)
(***************************************************************************)
VARIABLES
    pc,                 \* position of the process in the code
    exc,                \* the exception raised, NoExc when none
    process_result,     \* the exception that ended the process
    setup_clean_chain,  \* self.setup_clean_chain
    success,            \* main: success
    exit_code,          \* main: exit_code
    STC_Low,            \* self.STC_Low
    STC_Hi,             \* self.STC_Hi
    use_watt,           \* self.use_watt
    name,               \* self.name
    module_used,        \* get_cecmodules: the decoded response
    cec_modules,        \* run_test: cec_modules
    index,              \* run_test: index of the for loop
    device_errors,      \* run_test: device_errors
    input_module,       \* calculate_result: input_module
    irrad_temps,        \* calculate_result: irrad_temps
    parameters,         \* calculate_result / calcuate_errors: parameters
    diode,              \* calculate_result: IL, I0, Rs, Rsh, nNsVth per condition
    curve_info,         \* calculate_result / calcuate_errors: curve_info
    calculated_errs,    \* run_test: calculated_errs
    stdout,             \* the lines printed so far
    calls,              \* the calls made so far, each with its outcome
    calculated_again,   \* what a second call of calcuate_errors returned
    argv,               \* pv_modeling: sys.argv[1:]
    address,            \* pv_modeling: the global address
    CECMOD_MONO_1,      \* pv_modeling: CECMODS['Canadian_Solar_Inc__CS6X_300M']
    CECMOD_POLY_1,      \* pv_modeling: CECMODS['Canadian_Solar_Inc__CS6X_300P']
    mpp1,               \* PVModeling: self.mpp1
    mpp2,               \* PVModeling: self.mpp2
    tech1,              \* PVModeling: self.tech1
    tech2,              \* PVModeling: self.tech2
    cec_technology,     \* PVModeling.run_test / test_1: cec_technology
    lat_long,           \* PVModeling.run_test: lat, long
    test_1_mpp,         \* PVModeling.test_1: mpp
    return_to           \* PVModeling.run_test: where the test_1 call returns to

vars ==
    << pc, exc, process_result, setup_clean_chain, success, exit_code,
       STC_Low, STC_Hi, use_watt, name, module_used, cec_modules, index,
       device_errors, input_module, irrad_temps, parameters, diode,
       curve_info, calculated_errs, stdout, calls, calculated_again,
       argv, address, CECMOD_MONO_1, CECMOD_POLY_1, mpp1, mpp2, tech1, tech2,
       cec_technology, lat_long, test_1_mpp, return_to >>

\* the state of the PVPerfTest object
self_vars == << setup_clean_chain, STC_Low, STC_Hi, use_watt, name >>
\* the locals of main
main_vars == << success, exit_code >>
\* the locals of run_test
run_vars == << module_used, cec_modules, index, device_errors, calculated_errs >>
\* the locals of calculate_result
eval_vars == << input_module, irrad_temps, parameters, diode, curve_info >>
\* the globals of pv_modeling
global_vars == << argv, address, CECMOD_MONO_1, CECMOD_POLY_1 >>
\* the result slots of the PVModeling object
slot_vars == << mpp1, mpp2, tech1, tech2 >>
\* the locals of PVModeling.run_test and test_1
test_vars == << cec_technology, lat_long, test_1_mpp, return_to >>
\* the state of pv_modeling
modeling_vars == << global_vars, slot_vars, test_vars >>

\* a call as recorded in calls: module is the position in the batch of the
\* module the call works on, 0 for a call that works on no module
Call(op, module, ok) == [op |-> op, module |-> module, ok |-> ok]

\* raise e: nothing below catches, the exception propagates
Raise(e) == /\ exc' = e
            /\ pc' = "propagate"

Min(S) == CHOOSE x \in S : \A y \in S : x <= y

\* pv_modeling is not loaded, no PVModeling object exists
NoModeling ==
    /\ argv = << >>
    /\ address = ""
    /\ CECMOD_MONO_1 = NoModule
    /\ CECMOD_POLY_1 = NoModule
    /\ mpp1 = AbsentV
    /\ mpp2 = AbsentV
    /\ tech1 = AbsentV
    /\ tech2 = AbsentV
    /\ cec_technology = NoModule
    /\ lat_long = << 0, 0 >>
    /\ test_1_mpp = AbsentV
    /\ return_to = ""

(***************************************************************************)
(* The state after PVPerfTest(): __init__ has run set_test_params.         *)
(***************************************************************************)
Init ==
    /\ pc = "main"
    /\ exc = NoExc
    /\ process_result = NoExc
    /\ setup_clean_chain = TRUE
    /\ success = ""
    /\ exit_code = ""
    /\ STC_Low = 0
    /\ STC_Hi = 0
    /\ use_watt = RatInt(0)
    /\ name = ""
    /\ module_used = NoResponse
    /\ cec_modules = <<>>
    /\ index = 0
    /\ device_errors = <<>>
    /\ input_module = NoRecord
    /\ irrad_temps = <<>>
    /\ parameters = NoRecord
    /\ diode = <<>>
    /\ curve_info = NoCurve
    /\ calculated_errs = RatInt(0)
    /\ stdout = <<>>
    /\ calls = <<>>
    /\ calculated_again = RatInt(0)
    /\ NoModeling

(***************************************************************************)
(* PVBase.main up to the call of run_test.                                 *)
(***************************************************************************)
main ==
    /\ pc = "main"
    /\ success' = "FAILED"
    /\ pc' = "run_test"
    /\ UNCHANGED << exc, process_result, exit_code, self_vars, run_vars,
                    eval_vars, stdout, calls >>
    /\ UNCHANGED << calculated_again, modeling_vars >>

(***************************************************************************)
(* run_test up to the call of get_cecmodules.                              *)
(***************************************************************************)
run_test ==
    /\ pc = "run_test"
    /\ STC_Low' = 219
    /\ STC_Hi' = 221
    /\ use_watt' = Rat(STC_Hi' + STC_Low', 2)
    /\ name' = "Canadian Solar "
    /\ pc' = "urlopen"
    /\ UNCHANGED << exc, process_result, setup_clean_chain, main_vars,
                    run_vars, eval_vars, stdout, calls >>
    /\ UNCHANGED << calculated_again, modeling_vars >>

(***************************************************************************)
(* get_cecmodules: the request.  The catalog answers with a response, or   *)
(* the request fails.                                                      *)
(***************************************************************************)
get_cecmodules_urlopen ==
    /\ pc = "urlopen"
    /\ \/ /\ \E r \in CatalogResponses : module_used' = r
          /\ calls' = Append(calls, Call("urlopen", 0, TRUE))
          /\ pc' = "get_cecmodules"
          /\ exc' = exc
       \/ /\ calls' = Append(calls, Call("urlopen", 0, FALSE))
          /\ Raise(Exc("URLError", ""))
          /\ module_used' = module_used
    /\ UNCHANGED << process_result, self_vars, main_vars, cec_modules, index,
                    device_errors, calculated_errs, eval_vars, stdout >>
    /\ UNCHANGED << calculated_again, modeling_vars >>

(***************************************************************************)
(* get_cecmodules after the request: the count, the exit on an empty       *)
(* result, the listing of the names, the return of the objects array; and  *)
(* run_test's device_errors = [].                                          *)
(***************************************************************************)
\* what the listing of entry i (from 1) of the response raises
ListingError(response, i) ==
    IF i > Len(response.objects) THEN Exc("IndexError", "")
    ELSE IF "Name" \notin DOMAIN response.objects[i] THEN Exc("KeyError", "Name")
    ELSE IF ~IsStr(response.objects[i]["Name"]) THEN Exc("TypeError", "")
    ELSE NoExc

\* the lines the listing prints for entries 1..n
ListingLines(response, n) ==
    [i \in 1..n |-> Line("listed", response.objects[i]["Name"].s, i)]

\* faulty variant: the empty result is reported but exit(0) is missing, the
\* function goes on to return the objects array
get_cecmodules_no_exit ==
    /\ pc = "get_cecmodules"
    /\ LET total == module_used.total_count
           head  == Append(stdout, Line("total", "", total))
           bad   == { i \in 1..total : ListingError(module_used, i) # NoExc }
       IN  IF bad # {}
           THEN /\ stdout' = Append(head, Line("rule", "", 0))
                                \o ListingLines(module_used, Min(bad) - 1)
                /\ Raise(ListingError(module_used, Min(bad)))
                /\ UNCHANGED << cec_modules, device_errors >>
           ELSE /\ stdout' = IF total = 0
                             THEN Append(head, Line("no module", "", 0))
                             ELSE Append(Append(head, Line("rule", "", 0))
                                    \o ListingLines(module_used, total),
                                        Line("rule", "", 0))
                /\ cec_modules' = module_used.objects
                /\ device_errors' = <<>>
                /\ pc' = "for"
                /\ exc' = exc
    /\ UNCHANGED << process_result, self_vars, main_vars, module_used, index,
                    calculated_errs, eval_vars, calls >>
    /\ UNCHANGED << calculated_again, modeling_vars >>

get_cecmodules ==
    /\ pc = "get_cecmodules"
    /\ LET total == module_used.total_count
           head  == Append(stdout, Line("total", "", total))
           bad   == { i \in 1..total : ListingError(module_used, i) # NoExc }
       IN  IF total = 0
           THEN /\ stdout' = Append(head, Line("no module", "", 0))
                /\ Raise(Exc("SystemExit", "0"))
                /\ UNCHANGED << cec_modules, device_errors >>
           ELSE IF bad # {}
           THEN /\ stdout' = Append(head, Line("rule", "", 0))
                                \o ListingLines(module_used, Min(bad) - 1)
                /\ Raise(ListingError(module_used, Min(bad)))
                /\ UNCHANGED << cec_modules, device_errors >>
           ELSE /\ stdout' = Append(Append(head, Line("rule", "", 0))
                                \o ListingLines(module_used, total),
                                    Line("rule", "", 0))
                /\ cec_modules' = module_used.objects
                /\ device_errors' = <<>>
                /\ pc' = "for"
                /\ exc' = exc
    /\ UNCHANGED << process_result, self_vars, main_vars, module_used, index,
                    calculated_errs, eval_vars, calls >>
    /\ UNCHANGED << calculated_again, modeling_vars >>

(***************************************************************************)
(* run_test: the head of the for loop and the call of calculate_result.    *)
(* index counts the iterations begun before this one.                      *)
(***************************************************************************)
\* faulty variant: the loop ends one module early, as
\* range(len(cec_modules) - 1)
run_test_for_early ==
    /\ pc = "for"
    /\ IF index < Len(cec_modules) - 1
       THEN /\ input_module' = cec_modules[index + 1]
            /\ irrad_temps' = cases
            /\ pc' = "extract_module_params"
       ELSE /\ pc' = "report"
            /\ UNCHANGED << input_module, irrad_temps >>
    /\ UNCHANGED << exc, process_result, self_vars, main_vars, run_vars,
                    parameters, diode, curve_info, stdout, calls >>
    /\ UNCHANGED << calculated_again, modeling_vars >>

run_test_for ==
    /\ pc = "for"
    /\ IF index < Len(cec_modules)
       THEN /\ input_module' = cec_modules[index + 1]
            /\ irrad_temps' = cases
            /\ pc' = "extract_module_params"
       ELSE /\ pc' = "report"
            /\ UNCHANGED << input_module, irrad_temps >>
    /\ UNCHANGED << exc, process_result, self_vars, main_vars, run_vars,
                    parameters, diode, curve_info, stdout, calls >>
    /\ UNCHANGED << calculated_again, modeling_vars >>

(***************************************************************************)
(* extract_module_params: the dict literal reads the keys in order, the    *)
(* first absent key raises KeyError with that key; the values are copied   *)
(* as they are.                                                            *)
(***************************************************************************)
\* faulty variant: the keys are read with use_module.get(key), an absent key
\* gives None and raises nothing
extract_module_params_get(use_module) ==
    [raised |-> NoExc,
     value  |-> [f \in Fields |->
                   IF f \in DOMAIN use_module THEN use_module[f] ELSE StrV("None")]]

\* faulty variant: the technology label is the literal 'Mono-c-Si'
extract_module_params_literal(use_module) ==
    LET absent == { i \in DOMAIN FieldOrder : FieldOrder[i] \notin DOMAIN use_module }
    IN  IF absent # {}
        THEN [raised |-> Exc("KeyError", FieldOrder[Min(absent)]), value |-> NoRecord]
        ELSE [raised |-> NoExc,
              value  |-> [f \in Fields |->
                            IF f = "Technology" THEN StrV("Mono-c-Si") ELSE use_module[f]]]

extract_module_params(use_module) ==
    LET absent == { i \in DOMAIN FieldOrder : FieldOrder[i] \notin DOMAIN use_module }
    IN  IF absent # {}
        THEN [raised |-> Exc("KeyError", FieldOrder[Min(absent)]), value |-> NoRecord]
        ELSE [raised |-> NoExc, value |-> [f \in Fields |-> use_module[f]]]

\* calculate_result: parameters = self.extract_module_params(input_module)
calculate_result_extract ==
    /\ pc = "extract_module_params"
    /\ LET r == extract_module_params(input_module)
       IN  /\ calls' = Append(calls, Call("extract_module_params", index + 1, r.raised = NoExc))
           /\ IF r.raised # NoExc
              THEN /\ Raise(r.raised)
                   /\ UNCHANGED parameters
              ELSE /\ parameters' = r.value
                   /\ pc' = "calcparams_desoto"
                   /\ exc' = exc
    /\ UNCHANGED << process_result, self_vars, main_vars, run_vars,
                    input_module, irrad_temps, diode, curve_info, stdout >>
    /\ UNCHANGED << calculated_again, modeling_vars >>

(***************************************************************************)
(* calculate_result: the conditions table and the call of                  *)
(* pvsystem.calcparams_desoto on its two columns.  Arithmetic on an        *)
(* operand that is no number raises TypeError.                             *)
(***************************************************************************)
\* faulty variant: the two columns are handed over in the wrong order
calcparams_desoto_swapped(Geff, Tcell, p) ==
    [i \in DOMAIN Geff |->
        calcparams_desoto_at(Tcell[i], Geff[i], p["alpha_sc"].n, p["a_ref"].n,
                             p["I_L_ref"].n, p["I_o_ref"].n, p["R_sh_ref"].n,
                             p["R_s"].n)]

calcparams_desoto(Geff, Tcell, p) ==
    [i \in DOMAIN Geff |->
        calcparams_desoto_at(Geff[i], Tcell[i], p["alpha_sc"].n, p["a_ref"].n,
                             p["I_L_ref"].n, p["I_o_ref"].n, p["R_sh_ref"].n,
                             p["R_s"].n)]

calculate_result_desoto ==
    /\ pc = "calcparams_desoto"
    /\ LET Geff  == Column(irrad_temps, 1)
           Tcell == Column(irrad_temps, 2)
           ok    == \A f \in DesotoFields : IsNum(parameters[f])
       IN  /\ calls' = Append(calls, Call("calcparams_desoto", index + 1, ok))
           /\ IF ok
              THEN /\ diode' = calcparams_desoto(Geff, Tcell, parameters)
                   /\ pc' = "singlediode"
                   /\ exc' = exc
              ELSE /\ Raise(Exc("TypeError", ""))
                   /\ UNCHANGED diode
    /\ UNCHANGED << process_result, self_vars, main_vars, run_vars,
                    input_module, irrad_temps, parameters, curve_info, stdout >>
    /\ UNCHANGED << calculated_again, modeling_vars >>

(***************************************************************************)
(* calculate_result: the call of pvsystem.singlediode with                 *)
(* method='lambertw', the printed table and the return.  The solver        *)
(* returns one result per translated parameter set, or it fails.           *)
(* (plot_graph is False in every call of this file.)                       *)
(***************************************************************************)
singlediode(d) ==
    LET rows == [i \in DOMAIN d |->
                    singlediode_at(d[i].IL, d[i].I0, d[i].Rs, d[i].Rsh, d[i].nNsVth)]
    IN  [i_sc |-> Column(rows, "i_sc"), v_oc |-> Column(rows, "v_oc"),
         i_mp |-> Column(rows, "i_mp"), v_mp |-> Column(rows, "v_mp"),
         p_mp |-> Column(rows, "p_mp")]

\* faulty variant: a solver that failed is called once more (as a fallback to
\* another method would) before the failure is let through
calculate_result_singlediode_retry ==
    /\ pc = "singlediode"
    /\ \/ /\ curve_info' = singlediode(diode)
          /\ calls' = Append(calls, Call("singlediode", index + 1, TRUE))
          /\ stdout' = Append(stdout, Line("table", "", Len(curve_info'.p_mp)))
          /\ pc' = "calcuate_errors"
          /\ exc' = exc
       \/ /\ \E e \in ExternalErrors :
                IF \E i \in DOMAIN calls :
                      calls[i].op = "singlediode" /\ calls[i].module = index + 1
                THEN Raise(Exc(e, ""))
                ELSE UNCHANGED << pc, exc >>
          /\ calls' = Append(calls, Call("singlediode", index + 1, FALSE))
          /\ UNCHANGED << curve_info, stdout >>
    /\ UNCHANGED << process_result, self_vars, main_vars, run_vars,
                    input_module, irrad_temps, parameters, diode >>
    /\ UNCHANGED << calculated_again, modeling_vars >>

calculate_result_singlediode ==
    /\ pc = "singlediode"
    /\ \/ /\ curve_info' = singlediode(diode)
          /\ calls' = Append(calls, Call("singlediode", index + 1, TRUE))
          /\ stdout' = Append(stdout, Line("table", "", Len(curve_info'.p_mp)))
          /\ pc' = "calcuate_errors"
          /\ exc' = exc
       \/ /\ \E e \in ExternalErrors : Raise(Exc(e, ""))
          /\ calls' = Append(calls, Call("singlediode", index + 1, FALSE))
          /\ UNCHANGED << curve_info, stdout >>
    /\ UNCHANGED << process_result, self_vars, main_vars, run_vars,
                    input_module, irrad_temps, parameters, diode >>
    /\ UNCHANGED << calculated_again, modeling_vars >>

(***************************************************************************)
(* calcuate_errors.  DataFrame({'p_mp': ...}).to_dict().popitem() is the   *)
(* pair of the column name and the mapping from the row labels 0, 1, ...   *)
(* to the values; p_mp[1][0] is the value under label 0, KeyError when the *)
(* mapping is empty.  The strings are concatenated before that, TypeError  *)
(* when Name or Technology is no string.                                   *)
(***************************************************************************)
to_dict_popitem(column) ==
    << "p_mp", [k \in 0..(Len(column) - 1) |-> column[k + 1]] >>

\* faulty variant: the value under the last label instead of label 0
first_element_last(p_mp) ==
    IF 0 \in DOMAIN p_mp[2]
    THEN [raised |-> NoExc, value |-> RatInt(p_mp[2][Cardinality(DOMAIN p_mp[2]) - 1])]
    ELSE [raised |-> Exc("KeyError", "0"), value |-> RatInt(0)]

\* faulty variant: a default of 0 when label 0 is absent, as p_mp[1].get(0, 0)
first_element_default(p_mp) ==
    IF 0 \in DOMAIN p_mp[2]
    THEN [raised |-> NoExc, value |-> RatInt(p_mp[2][0])]
    ELSE [raised |-> NoExc, value |-> RatInt(0)]

\* mpp = p_mp[1][0]
first_element(p_mp) ==
    IF 0 \in DOMAIN p_mp[2]
    THEN [raised |-> NoExc, value |-> RatInt(p_mp[2][0])]
    ELSE [raised |-> Exc("KeyError", "0"), value |-> RatInt(0)]

\* diff = mpp / self.use_watt; diff_percent = (1-diff) * 100
diff_percent(mpp, watt) ==
    LET diff == RatDiv(mpp, watt)
    IN  RatMul(RatSub(RatInt(1), diff), RatInt(100))

calcuate_errors(curve, params, watt) ==
    LET p_mp == to_dict_popitem(curve.p_mp)
        mpp  == first_element(p_mp)
        out1 == << Line("p_mp", "", Len(curve.p_mp)) >>
        out2 == out1 \o << Line("manufacturer", params["Name"].s, FormatF(watt, 1)) >>
        out3 == out2 \o << Line("mpp", "", FormatF(mpp.value, 1)) >>
    IN  IF ~IsStr(params["Name"]) \/ ~IsStr(params["Technology"])
        THEN [raised |-> Exc("TypeError", ""), value |-> RatInt(0), out |-> out1]
        ELSE IF mpp.raised # NoExc
        THEN [raised |-> mpp.raised, value |-> RatInt(0), out |-> out2]
        ELSE IF watt.n = 0
        THEN [raised |-> Exc("ZeroDivisionError", ""), value |-> RatInt(0), out |-> out3]
        ELSE [raised |-> NoExc, value |-> diff_percent(mpp.value, watt),
              out |-> out3 \o << Line("error", "", FormatF(diff_percent(mpp.value, watt), 10)) >>]

\* faulty variant: the scorer takes the first row out of the curve results it
\* was given, as curve_info['p_mp'].pop(0)
run_test_calcuate_errors_consuming ==
    /\ pc = "calcuate_errors"
    /\ LET r == calcuate_errors(curve_info, parameters, use_watt)
       IN  /\ calls' = Append(calls, Call("calcuate_errors", index + 1, r.raised = NoExc))
           /\ stdout' = stdout \o r.out
           /\ IF r.raised # NoExc
              THEN /\ Raise(r.raised)
                   /\ UNCHANGED << calculated_errs, curve_info >>
              ELSE /\ calculated_errs' = r.value
                   /\ curve_info' = [curve_info EXCEPT !.p_mp = Tail(@)]
                   /\ pc' = "append"
                   /\ exc' = exc
    /\ UNCHANGED << process_result, self_vars, main_vars, module_used,
                    cec_modules, index, device_errors, input_module,
                    irrad_temps, parameters, diode >>
    /\ UNCHANGED << calculated_again, modeling_vars >>

\* run_test: calculated_errs = self.calcuate_errors(curve_info, parameters)
run_test_calcuate_errors ==
    /\ pc = "calcuate_errors"
    /\ LET r == calcuate_errors(curve_info, parameters, use_watt)
       IN  /\ calls' = Append(calls, Call("calcuate_errors", index + 1, r.raised = NoExc))
           /\ stdout' = stdout \o r.out
           /\ IF r.raised # NoExc
              THEN /\ Raise(r.raised)
                   /\ UNCHANGED calculated_errs
              ELSE /\ calculated_errs' = r.value
                   /\ pc' = "append"
                   /\ exc' = exc
    /\ UNCHANGED << process_result, self_vars, main_vars, module_used,
                    cec_modules, index, device_errors, eval_vars >>
    /\ UNCHANGED << calculated_again, modeling_vars >>

(***************************************************************************)
(* run_test: name = str(parameters['Name']) and the append; the loop       *)
(* moves on.                                                               *)
(***************************************************************************)
str(v) == IF IsStr(v) THEN v.s ELSE ToString(v.n)

\* faulty variant: the record is put in front, as device_errors.insert(0, ...)
run_test_append_front ==
    /\ pc = "append"
    /\ device_errors' = << [name |-> str(parameters["Name"]), err |-> calculated_errs] >>
                            \o device_errors
    /\ index' = index + 1
    /\ pc' = "for"
    /\ UNCHANGED << exc, process_result, self_vars, main_vars, module_used,
                    cec_modules, calculated_errs, eval_vars, stdout, calls >>
    /\ UNCHANGED << calculated_again, modeling_vars >>

run_test_append ==
    /\ pc = "append"
    /\ device_errors' = Append(device_errors,
                               [name |-> str(parameters["Name"]), err |-> calculated_errs])
    /\ index' = index + 1
    /\ pc' = "for"
    /\ UNCHANGED << exc, process_result, self_vars, main_vars, module_used,
                    cec_modules, calculated_errs, eval_vars, stdout, calls >>
    /\ UNCHANGED << calculated_again, modeling_vars >>

(***************************************************************************)
(* run_test: the final list, one line per record of device_errors, and the *)
(* return.                                                                 *)
(***************************************************************************)
report_lines(errors) ==
    [i \in DOMAIN errors |-> Line("report", errors[i].name, FormatF(errors[i].err, 10))]

run_test_report ==
    /\ pc = "report"
    /\ stdout' = Append(stdout, Line("blank", "", 0)) \o report_lines(device_errors)
    /\ pc' = "run_test returned"
    /\ UNCHANGED << exc, process_result, self_vars, main_vars, run_vars,
                    eval_vars, calls >>
    /\ UNCHANGED << calculated_again, modeling_vars >>

(***************************************************************************)
(* PVBase.main after run_test.  Only AssertionError is caught; after       *)
(* either branch exit_code is overwritten with PASSED and handed to        *)
(* sys.exit.  Any other exception leaves main and ends the process.        *)
(***************************************************************************)
main_returned ==
    /\ pc = "run_test returned"
    /\ success' = "PASSED"
    /\ stdout' = Append(stdout, Line("Tests successful", "", 0))
    /\ exit_code' = "PASSED"
    /\ process_result' = Exc("SystemExit", exit_code')
    /\ pc' = "terminated"
    /\ UNCHANGED << exc, self_vars, run_vars, eval_vars, calls >>
    /\ UNCHANGED << calculated_again, modeling_vars >>

\* faulty variant: exit_code is not overwritten after the branch, the failure is
\* reported as FAILED
main_except_failed ==
    /\ pc = "propagate"
    /\ exc.type = "AssertionError"
    /\ success' = "FAILED"
    /\ stdout' = stdout \o << Line("Assertion failed", "", 0), Line("Tests Failed", "", 0) >>
    /\ exit_code' = "FAILED"
    /\ process_result' = Exc("SystemExit", exit_code')
    /\ pc' = "terminated"
    /\ UNCHANGED << exc, self_vars, run_vars, eval_vars, calls >>
    /\ UNCHANGED << calculated_again, modeling_vars >>

main_except ==
    /\ pc = "propagate"
    /\ exc.type = "AssertionError"
    /\ success' = "FAILED"
    /\ stdout' = stdout \o << Line("Assertion failed", "", 0), Line("Tests Failed", "", 0) >>
    /\ exit_code' = "PASSED"
    /\ process_result' = Exc("SystemExit", exit_code')
    /\ pc' = "terminated"
    /\ UNCHANGED << exc, self_vars, run_vars, eval_vars, calls >>
    /\ UNCHANGED << calculated_again, modeling_vars >>

main_uncaught ==
    /\ pc = "propagate"
    /\ exc.type # "AssertionError"
    /\ process_result' = exc
    /\ pc' = "terminated"
    /\ UNCHANGED << exc, self_vars, main_vars, run_vars, eval_vars, stdout, calls >>
    /\ UNCHANGED << calculated_again, modeling_vars >>

Next ==
    \/ main
    \/ run_test
    \/ get_cecmodules_urlopen
    \/ get_cecmodules
    \/ run_test_for
    \/ calculate_result_extract
    \/ calculate_result_desoto
    \/ calculate_result_singlediode
    \/ run_test_calcuate_errors
    \/ run_test_append
    \/ run_test_report
    \/ main_returned
    \/ main_except
    \/ main_uncaught

Spec == Init /\ [][Next]_vars

(***************************************************************************)
(* Direct calls on a PVPerfTest object whose use_watt is set: either       *)
(* calculate_result on a module record and a list of conditions, followed  *)
(* by calcuate_errors on what it returned, or calcuate_errors on a curve   *)
(* and a parameter record.  What the call raises stays in exc.             *)
(***************************************************************************)
\* curve results whose maximum-power column is column
CurveOf(column) ==
    LET zeros == [i \in DOMAIN column |-> 0]
    IN  [i_sc |-> zeros, v_oc |-> zeros, i_mp |-> zeros, v_mp |-> zeros, p_mp |-> column]

InitUnit ==
    /\ exc = NoExc
    /\ process_result = NoExc
    /\ setup_clean_chain = TRUE
    /\ success = ""
    /\ exit_code = ""
    /\ STC_Low = 0
    /\ STC_Hi = 0
    /\ use_watt \in WattValues
    /\ name = ""
    /\ module_used = NoResponse
    /\ cec_modules = <<>>
    /\ index = 0
    /\ device_errors = <<>>
    /\ diode = <<>>
    /\ calculated_errs = RatInt(0)
    /\ stdout = <<>>
    /\ calls = <<>>
    /\ calculated_again = RatInt(0)
    /\ NoModeling
    /\ \/ /\ pc = "extract_module_params"
          /\ input_module \in RawRecords
          /\ irrad_temps \in SeqsUpTo(Conditions, MaxConds)
          /\ parameters = NoRecord
          /\ curve_info = NoCurve
       \/ /\ pc = "calcuate_errors"
          /\ input_module = NoRecord
          /\ irrad_temps = <<>>
          /\ parameters \in { GoodA, GoodB, [GoodB EXCEPT !["Technology"] = NumV(7)] }
          /\ curve_info \in { CurveOf(c) : c \in SeqsUpTo(PmpValues, MaxConds) }

NextUnit ==
    \/ calculate_result_extract
    \/ calculate_result_desoto
    \/ calculate_result_singlediode
    \/ run_test_calcuate_errors

SpecUnit == InitUnit /\ [][NextUnit]_vars

(***************************************************************************)
(* calcuate_errors called twice in a row on the same object with the same  *)
(* arguments.  The first call is run_test_calcuate_errors, whose result is *)
(* in calculated_errs; the second call reads the object and the arguments  *)
(* as the first call left them.                                            *)
(***************************************************************************)
calcuate_errors_again ==
    /\ pc = "append"
    /\ LET r == calcuate_errors(curve_info, parameters, use_watt)
       IN  /\ calls' = Append(calls, Call("calcuate_errors", index + 1, r.raised = NoExc))
           /\ stdout' = stdout \o r.out
           /\ IF r.raised # NoExc
              THEN /\ Raise(r.raised)
                   /\ UNCHANGED calculated_again
              ELSE /\ calculated_again' = r.value
                   /\ pc' = "called twice"
                   /\ exc' = exc
    /\ UNCHANGED << process_result, self_vars, main_vars, run_vars, eval_vars,
                    modeling_vars >>

NextTwice ==
    \/ calculate_result_extract
    \/ calculate_result_desoto
    \/ calculate_result_singlediode
    \/ run_test_calcuate_errors
    \/ calcuate_errors_again

SpecTwice == InitUnit /\ [][NextTwice]_vars

(***************************************************************************)
(* pv_modeling.py: the command line.  getopt.getopt(argv, "ha:d:n:p:",     *)
(* ["ifile=", "ofile=", "lfile", "pfile"]) reads the words from the left   *)
(* while they begin with '-'; an option that takes an argument takes the   *)
(* rest of its word or, when the word has no rest, the next word whatever  *)
(* that is; an unknown option, or an argument that is missing, raises      *)
(* GetoptError.                                                            *)
(***************************************************************************)
MaxArgs == 3

\* the words a command line is made of
Words == { "-a", "-aOslo", "-h", "-d", "-x", "--ifile", "--ifile=Rome", "Oslo" }

\* the words that begin with '-'
DashWords == Words \ { "Oslo" }

\* the option a word names, as getopt returns it
OptionOf(w) ==
    CASE w \in { "-a", "-aOslo" } -> "-a"
      [] w \in { "--ifile", "--ifile=Rome" } -> "--ifile"
      [] OTHER -> w

\* the argument a word carries after its option
Attached(w) ==
    CASE w = "-aOslo" -> << "Oslo" >>
      [] w = "--ifile=Rome" -> << "Rome" >>
      [] OTHER -> << >>

\* "ha:d:n:p:" and ["ifile=", "ofile=", "lfile", "pfile"]
KnownOptions ==
    { "-h", "-a", "-d", "-n", "-p", "--ifile", "--ofile", "--lfile", "--pfile" }
ArgumentOptions == { "-a", "-d", "-n", "-p", "--ifile", "--ofile" }

RECURSIVE getopt(_, _)
getopt(opts, args) ==
    IF args = << >> \/ Head(args) \notin DashWords
    THEN [raised |-> NoExc, opts |-> opts, args |-> args]
    ELSE LET opt == OptionOf(Head(args))
             given == Attached(Head(args))
             rest == Tail(args)
         IN  IF opt \notin KnownOptions
             THEN [raised |-> Exc("GetoptError", opt), opts |-> opts, args |-> rest]
             ELSE IF opt \notin ArgumentOptions
             THEN getopt(Append(opts, << opt, "" >>), rest)
             ELSE IF given # << >>
             THEN getopt(Append(opts, << opt, given[1] >>), rest)
             ELSE IF rest = << >>
             THEN [raised |-> Exc("GetoptError", opt), opts |-> opts, args |-> rest]
             ELSE getopt(Append(opts, << opt, Head(rest) >>), Tail(rest))

(***************************************************************************)
(* pv_modeling.main(argv).  address is assigned in the function and is not *)
(* declared global, so it is a local of main: it is unbound until an -a or *)
(* --ifile option assigns it, and reading it unbound raises                *)
(* UnboundLocalError.  What main raises ends the process, the call is at   *)
(* the top of the script.                                                  *)
(***************************************************************************)
Unbound == [bound |-> FALSE, s |-> ""]
Bound(s) == [bound |-> TRUE, s |-> s]

\* for opt, arg in opts, from option i on
RECURSIVE for_opts(_, _, _)
for_opts(opts, i, local) ==
    IF i > Len(opts) THEN [raised |-> NoExc, address |-> local]
    ELSE IF opts[i][1] = "-h"
    THEN [raised |-> Exc("SystemExit", "None"), address |-> local]
    ELSE IF opts[i][1] \in { "-a", "--ifile" }
    THEN for_opts(opts, i + 1, Bound(opts[i][2]))
    ELSE for_opts(opts, i + 1, local)

\* an exception that nothing catches ends the process
Exit(e) ==
    /\ exc' = e
    /\ process_result' = e
    /\ pc' = "terminated"

\* address = main(sys.argv[1:])
pv_modeling_main ==
    /\ pc = "main(argv)"
    /\ LET parsed == getopt(<< >>, argv)
           looped == for_opts(parsed.opts, 1, Unbound)
           usage == Append(stdout, Line("usage", "", 0))
       IN  IF parsed.raised # NoExc
           THEN /\ stdout' = usage
                /\ Exit(Exc("SystemExit", "2"))
                /\ UNCHANGED address
           ELSE IF looped.raised # NoExc
           THEN /\ stdout' = usage
                /\ Exit(looped.raised)
                /\ UNCHANGED address
           ELSE IF ~looped.address.bound
           THEN /\ Exit(Exc("UnboundLocalError", "address"))
                /\ UNCHANGED << stdout, address >>
           ELSE /\ stdout' = Append(stdout, Line("Address", looped.address.s, 0))
                /\ address' = looped.address.s
                /\ pc' = "PVModeling()"
                /\ UNCHANGED << exc, process_result >>
    /\ UNCHANGED << self_vars, main_vars, run_vars, eval_vars, calls,
                    calculated_again, argv, CECMOD_MONO_1, CECMOD_POLY_1,
                    slot_vars, test_vars >>

(***************************************************************************)
(* PVModeling().  PVBase.__init__ runs set_test_params, which makes the    *)
(* four result slots, each ''.                                             *)
(***************************************************************************)
set_test_params ==
    /\ pc = "PVModeling()"
    /\ setup_clean_chain' = TRUE
    /\ mpp1' = TextV(<< >>)
    /\ mpp2' = TextV(<< >>)
    /\ tech1' = TextV(<< >>)
    /\ tech2' = TextV(<< >>)
    /\ pc' = "main"
    /\ UNCHANGED << exc, process_result, STC_Low, STC_Hi, use_watt, name,
                    main_vars, run_vars, eval_vars, stdout, calls,
                    calculated_again, global_vars, test_vars >>

(***************************************************************************)
(* PVModeling.run_test up to the first call of test_1.  The geocoder       *)
(* answers with a position, or with None, and then location.latitude       *)
(* raises AttributeError.                                                  *)
(***************************************************************************)
Positions == { << 59, 10 >> }

PVModeling_run_test ==
    /\ pc = "run_test"
    /\ cec_technology' = CECMOD_MONO_1
    /\ \/ /\ lat_long' \in Positions
          /\ stdout' = stdout \o << Line("latitude", "", lat_long'[1]),
                                    Line("longitude", "", lat_long'[2]) >>
          /\ calls' = Append(calls, Call("get_location_from_address", 0, TRUE))
          /\ return_to' = "run_test poly"
          /\ pc' = "test_1"
          /\ exc' = exc
       \/ /\ calls' = Append(calls, Call("get_location_from_address", 0, FALSE))
          /\ Raise(Exc("AttributeError", "latitude"))
          /\ UNCHANGED << lat_long, stdout, return_to >>
    /\ UNCHANGED << process_result, self_vars, main_vars, run_vars, eval_vars,
                    calculated_again, global_vars, slot_vars, test_1_mpp >>

\* run_test between the calls of test_1: cec_technology = CECMOD_POLY_1
PVModeling_run_test_poly ==
    /\ pc = "run_test poly"
    /\ cec_technology' = CECMOD_POLY_1
    /\ return_to' = "plot_dc_compare"
    /\ pc' = "test_1"
    /\ UNCHANGED << exc, process_result, self_vars, main_vars, run_vars,
                    eval_vars, stdout, calls, calculated_again, global_vars,
                    slot_vars, lat_long, test_1_mpp >>

(***************************************************************************)
(* test_1.  Steps 1 to 7 end with mpp = self.get_mpp(cecparams) and the    *)
(* plot of the DC energy; the library calls return or raise.  Then the     *)
(* result goes to the slots chosen by "Mono" in Technology; then the AC    *)
(* side, library calls again, and the return.                              *)
(***************************************************************************)
\* which call of test_1 this is
TestNumber == IF return_to = "run_test poly" THEN 1 ELSE 2

\* stand-in for max_power_point over the year: one number per module and site
max_power_point(module, position) == Len(module.Technology) * 100 + position[1]

test_1 ==
    /\ pc = "test_1"
    /\ \/ /\ test_1_mpp' = FrameV(max_power_point(cec_technology, lat_long))
          /\ pc' = "test_1 if"
          /\ UNCHANGED << exc, calls >>
       \/ \E e \in ExternalErrors :
             /\ calls' = Append(calls, Call("test_1", TestNumber, FALSE))
             /\ Raise(Exc(e, ""))
             /\ UNCHANGED test_1_mpp
    /\ UNCHANGED << process_result, self_vars, main_vars, run_vars, eval_vars,
                    stdout, calculated_again, global_vars, slot_vars,
                    cec_technology, lat_long, return_to >>

Mono == << "M", "o", "n", "o" >>

test_1_if ==
    /\ pc = "test_1 if"
    /\ IF Contains(Mono, cec_technology.Technology)
       THEN /\ stdout' = Append(stdout, Line("Technology1", "", 0))
            /\ mpp1' = test_1_mpp
            /\ tech1' = TextV(cec_technology.Technology)
            /\ UNCHANGED << mpp2, tech2 >>
       ELSE /\ stdout' = Append(stdout, Line("Technology2", "", 0))
            /\ mpp2' = test_1_mpp
            /\ tech2' = TextV(cec_technology.Technology)
            /\ UNCHANGED << mpp1, tech1 >>
    /\ pc' = "build_pv_array"
    /\ UNCHANGED << exc, process_result, self_vars, main_vars, run_vars,
                    eval_vars, calls, calculated_again, global_vars, test_vars >>

test_1_build_pv_array ==
    /\ pc = "build_pv_array"
    /\ \/ /\ calls' = Append(calls, Call("test_1", TestNumber, TRUE))
          /\ pc' = return_to
          /\ exc' = exc
       \/ \E e \in ExternalErrors :
             /\ calls' = Append(calls, Call("test_1", TestNumber, FALSE))
             /\ Raise(Exc(e, ""))
    /\ UNCHANGED << process_result, self_vars, main_vars, run_vars, eval_vars,
                    stdout, calculated_again, modeling_vars >>

(***************************************************************************)
(* plot_dc_compare(self.mpp1, self.mpp2, address, self.tech1, self.tech2)  *)
(* reads mpp1.p_mp and then mpp2.p_mp: AttributeError when a slot still    *)
(* holds ''.  After it run_test returns.                                   *)
(***************************************************************************)
plot_dc_compare ==
    /\ pc = "plot_dc_compare"
    /\ IF IsFrame(mpp1) /\ IsFrame(mpp2)
       THEN /\ calls' = Append(calls, Call("plot_dc_compare", 0, TRUE))
            /\ pc' = "run_test returned"
            /\ exc' = exc
       ELSE /\ calls' = Append(calls, Call("plot_dc_compare", 0, FALSE))
            /\ Raise(Exc("AttributeError", "p_mp"))
    /\ UNCHANGED << process_result, self_vars, main_vars, run_vars, eval_vars,
                    stdout, calculated_again, modeling_vars >>

(***************************************************************************)
(* The script pv_modeling.py run with a command line: the CEC table has    *)
(* been read, no object exists yet.                                        *)
(***************************************************************************)
InitModeling ==
    /\ pc = "main(argv)"
    /\ exc = NoExc
    /\ process_result = NoExc
    /\ setup_clean_chain = FALSE
    /\ success = ""
    /\ exit_code = ""
    /\ STC_Low = 0
    /\ STC_Hi = 0
    /\ use_watt = RatInt(0)
    /\ name = ""
    /\ module_used = NoResponse
    /\ cec_modules = <<>>
    /\ index = 0
    /\ device_errors = <<>>
    /\ input_module = NoRecord
    /\ irrad_temps = <<>>
    /\ parameters = NoRecord
    /\ diode = <<>>
    /\ curve_info = NoCurve
    /\ calculated_errs = RatInt(0)
    /\ stdout = <<>>
    /\ calls = <<>>
    /\ calculated_again = RatInt(0)
    /\ argv \in SeqsUpTo(Words, MaxArgs)
    /\ address = ""
    /\ CECMOD_MONO_1 \in { Module(t) : t \in Technologies }
    /\ CECMOD_POLY_1 \in { Module(t) : t \in Technologies }
    /\ mpp1 = AbsentV
    /\ mpp2 = AbsentV
    /\ tech1 = AbsentV
    /\ tech2 = AbsentV
    /\ cec_technology = NoModule
    /\ lat_long = << 0, 0 >>
    /\ test_1_mpp = AbsentV
    /\ return_to = ""

NextModeling ==
    \/ pv_modeling_main
    \/ set_test_params
    \/ main
    \/ PVModeling_run_test
    \/ test_1
    \/ test_1_if
    \/ test_1_build_pv_array
    \/ PVModeling_run_test_poly
    \/ plot_dc_compare
    \/ main_returned
    \/ main_except
    \/ main_uncaught

SpecModeling == InitModeling /\ [][NextModeling]_vars

(***************************************************************************)
(* Properties.                                                             *)
(***************************************************************************)
\* the positions of the batch
Batch == 1..Len(cec_modules)

\* a call working on module k has failed
Failed(k) == \E i \in DOMAIN calls : calls[i].module = k /\ ~calls[i].ok

\* the calls of operation op on module k
CallsOf(op, k) == { i \in DOMAIN calls : calls[i].op = op /\ calls[i].module = k }

\* the lines of the final list that have been printed, in order
Printed(tag) == SelectSeq(stdout, LAMBDA l : l.tag = tag)

\* the process has ended after the batch had begun
BatchEnded == pc = "terminated" /\ cec_modules # <<>>

(***************************************************************************)
(* C1: in run_test, an error raised by the resolve, evaluate or score step *)
(* of module k is caught by the driver, the name of module k is logged,    *)
(* module k contributes no record, and every module after k is still       *)
(* processed: when the process ends, every module of the batch has been    *)
(* worked on, the records are those of the modules that did not fail, and  *)
(* the final list has been printed.                                        *)
(***************************************************************************)
C1_ModuleErrorIsolated ==
    BatchEnded =>
        /\ \A k \in Batch : CallsOf("extract_module_params", k) # {}
        /\ \A k \in Batch :
              Failed(k) =>
                 \E i \in DOMAIN stdout :
                    /\ stdout[i].tag = "error log"
                    /\ stdout[i].name = str(cec_modules[k]["Name"])
        /\ Len(device_errors) = Cardinality({ k \in Batch : ~Failed(k) })
        /\ Len(Printed("report")) = Len(device_errors)


\* calcuate_errors is the last call that was made
ScorerCalled == calls # <<>> /\ calls[Len(calls)].op = "calcuate_errors"

\* Name and Technology of the parameter record are text
TextLabels == IsStr(parameters["Name"]) /\ IsStr(parameters["Technology"])

(***************************************************************************)
(* C2: for every non-empty curve sequence and every non-zero reference     *)
(* wattage, calcuate_errors returns exactly (1 - p_mp[0] / use_watt) * 100 *)
(* where p_mp[0] is the maximum power of the first condition of the        *)
(* sequence, whatever that condition is and whatever the other elements    *)
(* are (the parameter record holding text labels).  Stated without         *)
(* division: result * use_watt = (use_watt - p_mp[0]) * 100.               *)
(***************************************************************************)
C2_ScoreIsFirstPmp ==
    (/\ ScorerCalled
     /\ curve_info.p_mp # <<>>
     /\ use_watt.n # 0
     /\ TextLabels)
    => /\ pc = "append"
       /\ exc = NoExc
       /\ calculated_errs.n * use_watt.n
            = (use_watt.n - curve_info.p_mp[1] * use_watt.d) * 100 * calculated_errs.d

\* the scorer has returned for a curve whose first condition is not
\* (1000, 55) and whose second element holds a larger maximum power
C2_Witness ==
    /\ ScorerCalled
    /\ pc = "append"
    /\ Len(irrad_temps) >= 2
    /\ irrad_temps[1] = <<400, 25>>
    /\ irrad_temps[2] = <<1000, 55>>
    /\ curve_info.p_mp[2] > curve_info.p_mp[1]
    /\ calculated_errs # RatInt(0)

(***************************************************************************)
(* C8: calcuate_errors called with an empty curve sequence fails and       *)
(* returns no percentage; with text labels in the parameter record the     *)
(* failure is the lookup of row 0 in the empty column (KeyError 0), the    *)
(* code's form of the empty-curve error.                                   *)
(***************************************************************************)
C8_EmptyCurveFails ==
    (ScorerCalled /\ curve_info.p_mp = <<>>)
    => /\ pc = "propagate"
       /\ exc # NoExc
       /\ ~calls[Len(calls)].ok
       /\ calculated_errs = RatInt(0)
       /\ Printed("error") = <<>>
       /\ TextLabels => exc = Exc("KeyError", "0")

\* the scorer was called directly with an empty curve and raised KeyError 0
C8_Witness ==
    /\ ScorerCalled
    /\ Len(calls) = 1
    /\ curve_info.p_mp = <<>>
    /\ exc = Exc("KeyError", "0")
    /\ pc = "propagate"


\* run_test has returned normally
RunReturned == pc = "run_test returned" \/ (pc = "terminated" /\ exc = NoExc)

\* the maximum power of module record m under the first condition of cases
FirstCasePower(m) ==
    LET d == calcparams_desoto_at(cases[1][1], cases[1][2], m["alpha_sc"].n,
                                  m["a_ref"].n, m["I_L_ref"].n, m["I_o_ref"].n,
                                  m["R_sh_ref"].n, m["R_s"].n)
    IN  singlediode_at(d.IL, d.I0, d.Rs, d.Rsh, d.nNsVth).p_mp

(***************************************************************************)
(* C3: when every module of the batch is processed without error,          *)
(* device_errors holds exactly one (name, deviation) record per module of  *)
(* the catalog, record k being the name and the deviation of module k,     *)
(* repeated names kept and nothing reordered, and the final list printed   *)
(* is those records in that order.                                         *)
(***************************************************************************)
C3_OneRecordPerModuleInOrder ==
    RunReturned =>
        /\ Len(device_errors) = Len(cec_modules)
        /\ \A k \in Batch :
              /\ device_errors[k].name = cec_modules[k]["Name"].s
              /\ device_errors[k].err.n * use_watt.n
                    = (use_watt.n - FirstCasePower(cec_modules[k]) * use_watt.d)
                        * 100 * device_errors[k].err.d
        /\ Printed("report") =
              [k \in Batch |-> Line("report", cec_modules[k]["Name"].s,
                                    FormatF(device_errors[k].err, 10))]

\* a batch B, A, B has been processed: a repeated name, and deviations that
\* are neither ascending nor descending
C3_Witness ==
    /\ RunReturned
    /\ Len(device_errors) = 3
    /\ device_errors[1].name = "B"
    /\ device_errors[2].name = "A"
    /\ device_errors[3].name = "B"
    /\ device_errors[1].err.n > 0
    /\ device_errors[2].err.n < 0
    /\ Len(Printed("report")) = 3

\* the catalog has answered with meta.total_count = 0
EmptyResult ==
    /\ \E i \in DOMAIN calls : calls[i].op = "urlopen" /\ calls[i].ok
    /\ module_used.total_count = 0

(***************************************************************************)
(* C5: when the response of the catalog has meta.total_count = 0, the run  *)
(* is aborted and the condition is reported before it ends: no module is   *)
(* resolved, evaluated or scored, no error record is produced and the      *)
(* final list is not printed; the process ends by exit(0).                 *)
(***************************************************************************)
C5_EmptyResultAborts ==
    EmptyResult =>
        /\ pc \in {"get_cecmodules", "propagate", "terminated"}
        /\ \A i \in DOMAIN calls : calls[i].module = 0
        /\ device_errors = <<>>
        /\ Printed("report") = <<>>
        /\ Printed("blank") = <<>>
        /\ pc # "get_cecmodules" =>
              /\ Len(Printed("no module")) = 1
              /\ exc = Exc("SystemExit", "0")
        /\ pc = "terminated" => process_result = Exc("SystemExit", "0")

\* the process has ended on an empty result
C5_Witness ==
    /\ EmptyResult
    /\ pc = "terminated"
    /\ stdout[Len(stdout)].tag = "no module"


\* the first call made is extract_module_params (a direct call of
\* calculate_result): input_module is its argument
ResolverCalled == calls # <<>> /\ calls[1].op = "extract_module_params"

\* the fixed field names the record lacks
Absent == Fields \ DOMAIN input_module

\* the numeric fields of the record that hold no number
Malformed == { f \in NumericFields \cap DOMAIN input_module : ~IsNum(input_module[f]) }

\* the place of field f in the dict literal
Place(f) == CHOOSE i \in DOMAIN FieldOrder : FieldOrder[i] = f

ClaimedFields ==
    { "Name", "BIPV", "Date", "T_NOCT", "A_c", "N_s", "I_sc_ref", "V_oc_ref",
      "I_mp_ref", "V_mp_ref", "beta_oc", "alpha_sc", "a_ref", "I_L_ref",
      "I_o_ref", "R_s", "R_sh_ref", "Adjust", "gamma_r", "Version", "PTC",
      "Technology" }

(***************************************************************************)
(* C6: for every raw record that contains all fixed field names,           *)
(* extract_module_params returns a record with exactly the 22 fixed        *)
(* fields, each equal to the value of the input under the same name, and   *)
(* the call leaves the input record and the state of the object            *)
(* (self.name, self.use_watt, ...) unchanged.                              *)
(***************************************************************************)
C6_ResolverCopies ==
    /\ [](ResolverCalled /\ Absent = {} =>
            /\ calls[1].ok
            /\ DOMAIN parameters = ClaimedFields
            /\ Cardinality(DOMAIN parameters) = 22
            /\ \A f \in ClaimedFields : parameters[f] = input_module[f])
    /\ [][pc = "extract_module_params" =>
            /\ input_module' = input_module
            /\ name' = name
            /\ use_watt' = use_watt
            /\ UNCHANGED self_vars]_vars

\* the resolver has returned the copy of a complete record, a non-numeric
\* a_ref included
C6_Witness ==
    /\ ResolverCalled
    /\ calls[1].ok
    /\ input_module = [GoodA EXCEPT !["a_ref"] = StrV("abc")]
    /\ parameters = input_module


\* main has handed the PASSED status to sys.exit
ReportedPassed == process_result = Exc("SystemExit", "PASSED") /\ exit_code = "PASSED"

(***************************************************************************)
(* C7, as claimed: PVBase.main always reports success: whether run_test    *)
(* returns normally, raises AssertionError or raises any other exception,  *)
(* main ends by reporting the PASSED status as the process result.         *)
(***************************************************************************)
C7_MainAlwaysReportsPassed ==
    pc = "terminated" => ReportedPassed

(***************************************************************************)
(* C7, amended: PVBase.main reports the PASSED status whenever run_test    *)
(* returns normally or raises AssertionError (after printing 'Tests        *)
(* successful', respectively 'Assertion failed' and 'Tests Failed'); any   *)
(* other exception of run_test, the SystemExit of exit(0) included, is not *)
(* caught: it leaves main and ends the process, and main reports no        *)
(* status.                                                                 *)
(***************************************************************************)
C7_MainReportsPassedUnlessUncaught ==
    pc = "terminated" =>
        /\ exc.type = "none" =>
              /\ ReportedPassed
              /\ success = "PASSED"
              /\ stdout[Len(stdout)].tag = "Tests successful"
        /\ exc.type = "AssertionError" =>
              /\ ReportedPassed
              /\ success = "FAILED"
              /\ stdout[Len(stdout)].tag = "Tests Failed"
        /\ exc.type \notin {"none", "AssertionError"} =>
              /\ process_result = exc
              /\ exit_code = ""
              /\ Printed("Tests successful") = <<>>
              /\ Printed("Tests Failed") = <<>>

\* run_test has raised AssertionError and main has reported PASSED
C7_Witness ==
    /\ pc = "terminated"
    /\ exc.type = "AssertionError"
    /\ success = "FAILED"
    /\ ReportedPassed

\* calculate_result has returned (a direct call)
EvaluatorReturned ==
    \E i \in DOMAIN calls : calls[i].op = "singlediode" /\ calls[i].ok

\* the curve result of parameter record p under the condition c
ResultFor(p, c) ==
    LET d == calcparams_desoto_at(c[1], c[2], p["alpha_sc"].n, p["a_ref"].n,
                                  p["I_L_ref"].n, p["I_o_ref"].n,
                                  p["R_sh_ref"].n, p["R_s"].n)
    IN  singlediode_at(d.IL, d.I0, d.Rs, d.Rsh, d.nNsVth)

(***************************************************************************)
(* C9: for every valid parameter record and every non-empty list of        *)
(* (irradiance, cell temperature) conditions, calculate_result returns     *)
(* curve results with exactly one entry per condition, entry i being the   *)
(* result for condition i of the list.                                     *)
(***************************************************************************)
C9_OneResultPerConditionInOrder ==
    (EvaluatorReturned /\ irrad_temps # <<>>) =>
        /\ \A col \in {"i_sc", "v_oc", "i_mp", "v_mp", "p_mp"} :
              Len(curve_info[col]) = Len(irrad_temps)
        /\ \A i \in DOMAIN irrad_temps :
              [col \in {"i_sc", "v_oc", "i_mp", "v_mp", "p_mp"} |-> curve_info[col][i]]
                 = ResultFor(parameters, irrad_temps[i])

\* calculate_result has returned for three conditions that are not in the
\* order of their irradiance
C9_Witness ==
    /\ EvaluatorReturned
    /\ input_module = GoodA
    /\ irrad_temps = << <<400, 25>>, <<1000, 55>>, <<800, 55>> >>
    /\ curve_info.p_mp = << 74, 240, 160 >>

(***************************************************************************)
(* C10: nothing that failed is attempted again.  No operation (catalog     *)
(* fetch, resolve, translation, solve, score) is called twice for the same *)
(* module, so a solver that failed is neither called again nor replaced by *)
(* another method; a failed call is the last call made, and its failure is *)
(* the exception that leaves the evaluation.                               *)
(***************************************************************************)
C10_NoRetry ==
    /\ \A i, j \in DOMAIN calls :
          (calls[i].op = calls[j].op /\ calls[i].module = calls[j].module) => i = j
    /\ \A i \in DOMAIN calls :
          ~calls[i].ok =>
             /\ i = Len(calls)
             /\ pc \in {"propagate", "terminated"}
             /\ exc # NoExc

\* the solver has failed on the second of three modules and the process
\* has ended
C10_Witness ==
    /\ pc = "terminated"
    /\ Len(cec_modules) = 3
    /\ calls[Len(calls)] = Call("singlediode", 2, FALSE)
    /\ exc.type = "RuntimeError"

(***************************************************************************)
(* C11: calcuate_errors is idempotent.  Called twice in a row with the     *)
(* same curve results, the same parameter record and the same reference    *)
(* wattage, it returns the identical percentage both times, and the first  *)
(* call changes nothing of what the second call reads: the curve results,  *)
(* the parameter record and self.use_watt.                                 *)
(***************************************************************************)
C11_ScorerIdempotent ==
    /\ [](pc = "called twice" => calculated_again = calculated_errs)
    /\ [][pc = "calcuate_errors"
            => UNCHANGED << curve_info, parameters, use_watt >>]_vars

\* both calls have returned, on a curve whose first two rows differ
C11_Witness ==
    /\ pc = "called twice"
    /\ Len(curve_info.p_mp) >= 2
    /\ curve_info.p_mp[1] # curve_info.p_mp[2]
    /\ Cardinality(CallsOf("calcuate_errors", index + 1)) = 2
    /\ calculated_again = calculated_errs
    /\ calculated_again # RatInt(100)

\* the steps on one module: the resolver, the two steps of the evaluator and
\* the scorer
Steps == << "extract_module_params", "calcparams_desoto", "singlediode",
            "calcuate_errors" >>

\* every step on module k has been made exactly once and has returned
Processed(k) ==
    \A s \in DOMAIN Steps :
        /\ Cardinality(CallsOf(Steps[s], k)) = 1
        /\ \A i \in CallsOf(Steps[s], k) : calls[i].ok

\* the final list has been begun
ReportBegun == Printed("blank") # << >>

(***************************************************************************)
(* C12: run_test processes the batch strictly sequentially, resolver then  *)
(* evaluator then scorer, once per module.  No step is made twice on a     *)
(* module, a step on module k comes after the step before it on module k,  *)
(* a module whose record is appended has had every step exactly once, no   *)
(* step on module k+1 is made before the record of module k is appended    *)
(* and none on module k after a step on module k+1, and the final list is  *)
(* printed only after the record of the last module is appended.           *)
(***************************************************************************)
C12_StrictlySequential ==
    /\ \A k \in Batch :
          /\ \A s \in DOMAIN Steps : Cardinality(CallsOf(Steps[s], k)) <= 1
          /\ \A s \in 2..Len(Steps) : \A j \in CallsOf(Steps[s], k) :
                \E i \in CallsOf(Steps[s - 1], k) : i < j /\ calls[i].ok
          /\ k <= Len(device_errors) => Processed(k)
          /\ (k > 1 /\ \E i \in DOMAIN calls : calls[i].module = k)
                => Len(device_errors) >= k - 1
    /\ \A i, j \in DOMAIN calls : i < j => calls[i].module <= calls[j].module
    /\ ReportBegun =>
          /\ Len(device_errors) = Len(cec_modules)
          /\ \A k \in Batch : Processed(k)

\* the final list is printed after a batch of two modules or more
C12_Witness ==
    /\ ReportBegun
    /\ Len(cec_modules) >= 2
    /\ Len(device_errors) = Len(cec_modules)
    /\ \A k \in Batch : Processed(k)

\* every record of the response holds a text Name
Named(response) ==
    \A i \in DOMAIN response.objects :
        /\ "Name" \in DOMAIN response.objects[i]
        /\ IsStr(response.objects[i]["Name"])

(***************************************************************************)
(* C13: for every response of the catalog with meta.total_count > 0 whose  *)
(* records hold a text Name, total_count larger than the number of records *)
(* of the objects array included, get_cecmodules returns the objects array *)
(* of the response, complete and in its order.                             *)
(***************************************************************************)
C13_ReturnsObjectsArray ==
    [][(/\ pc = "get_cecmodules"
        /\ module_used.total_count > 0
        /\ Named(module_used))
          => /\ pc' = "for"
             /\ cec_modules' = module_used.objects]_vars

\* the options that getopt finds in argv
Options == getopt(<< >>, argv).opts

\* argv holds no option error and no -h
Accepted ==
    /\ getopt(<< >>, argv).raised = NoExc
    /\ \A i \in DOMAIN Options : Options[i][1] # "-h"

\* the places in Options of the -a and --ifile options
AddressOptions == { i \in DOMAIN Options : Options[i][1] \in { "-a", "--ifile" } }

Max(S) == CHOOSE x \in S : \A y \in S : x >= y

\* the argument of the last -a or --ifile option, the empty address when
\* there is none
GivenAddress ==
    IF AddressOptions = {} THEN "" ELSE Options[Max(AddressOptions)][2]

(***************************************************************************)
(* C14: in pv_modeling, for an argv with no option error and no -h,        *)
(* main(argv) prints and returns the argument of the last -a or --ifile    *)
(* option of argv, and when argv holds no such option it prints and        *)
(* returns the default empty address without failing.                      *)
(***************************************************************************)
C14_MainReturnsAddress ==
    [][(pc = "main(argv)" /\ Accepted)
          => /\ pc' = "PVModeling()"
             /\ address' = GivenAddress
             /\ stdout' = Append(stdout, Line("Address", GivenAddress, 0))]_vars

\* both calls of test_1 have returned
BothTestsDone ==
    /\ \E i \in DOMAIN calls : calls[i] = Call("test_1", 1, TRUE)
    /\ \E i \in DOMAIN calls : calls[i] = Call("test_1", 2, TRUE)

(***************************************************************************)
(* C15: in PVModeling, each call of test_1 writes exactly one of the two   *)
(* pairs of result slots, (mpp1, tech1) when the Technology of the module  *)
(* contains 'Mono' and (mpp2, tech2) otherwise, and leaves the other pair  *)
(* unchanged; run_test calls plot_dc_compare only after both calls of      *)
(* test_1 have returned, and at that point mpp1 and mpp2 both hold a       *)
(* computed result, neither still '', whatever the technologies of the two *)
(* modules are.                                                            *)
(***************************************************************************)
C15_BothSlotsFilledAtCompare ==
    /\ [][pc = "test_1 if"
            => IF Contains(Mono, cec_technology.Technology)
               THEN /\ mpp1' = test_1_mpp
                    /\ tech1' = TextV(cec_technology.Technology)
                    /\ UNCHANGED << mpp2, tech2 >>
               ELSE /\ mpp2' = test_1_mpp
                    /\ tech2' = TextV(cec_technology.Technology)
                    /\ UNCHANGED << mpp1, tech1 >>]_vars
    /\ [](pc = "plot_dc_compare"
            => /\ BothTestsDone
               /\ IsFrame(mpp1)
               /\ IsFrame(mpp2))

====
